---------------------------- MODULE Spec2Model ----------------------------
(***************************************************************************)
(* Model of the EKF adaptive filter node (src/src/EKFAdaptiveFilter.cpp):  *)
(* the three sensor handlers that stage measurements, the estimator loop   *)
(* run() that predicts and corrects, and the numeric stages they call.     *)
(*                                                                         *)
(* Numbers.  The code computes in IEEE doubles.  The model computes in     *)
(* exact rational arithmetic, a number being a pair <<n, d>>:              *)
(*    d > 0   the rational n/d in lowest terms;                            *)
(*    NaN     a non-finite double (an infinity or a NaN);                  *)
(*    Fin     a finite double whose value the model does not track;       *)
(*    Unk     a double the model does not track at all.                    *)
(* Transcendental functions are exact where their value is rational        *)
(* (sin 0, cos 0) and Fin elsewhere, except the sine of a small non-zero   *)
(* argument x, which is x * SincStep: sin(x)/x lies strictly between 0 and *)
(* 1 there, and the rational SincStep stands for that value.               *)
(***************************************************************************)
EXTENDS Integers, Sequences, FiniteSets, TLC

-----------------------------------------------------------------------------
(* Exact rationals with the three untracked values.                        *)

Abs(i) == IF i < 0 THEN -i ELSE i

RECURSIVE Gcd(_, _)
Gcd(a, b) == IF b = 0 THEN a ELSE Gcd(b, a % b)

Rat(n, d) ==
    IF n = 0 THEN <<0, 1>>
    ELSE LET g == Gcd(Abs(n), Abs(d))
             s == IF d < 0 THEN -1 ELSE 1
         IN  <<s * (n \div g), s * (d \div g)>>

Zero == <<0, 1>>
One  == <<1, 1>>
NaN  == <<0, 0>>
Fin  == <<1, 0>>
Unk  == <<2, 0>>

IsExact(a)  == a[2] # 0
IsFinite(a) == a[2] # 0 \/ a = Fin

Neg(a) == IF IsExact(a) THEN <<-a[1], a[2]>> ELSE a

\* The largest numerator and denominator the model tracks: a finite value
\* beyond it becomes Fin.
Cap == 1000 * 1000 * 1000

Fits(i, j) == i = 0 \/ j = 0 \/ Abs(i) <= Cap \div Abs(j)

Add(a, b) ==
    IF a[2] # 0 /\ b[2] # 0
    THEN IF a[1] = 0 THEN b
         ELSE IF b[1] = 0 THEN a
         ELSE LET g  == Gcd(a[2], b[2])
                  ka == b[2] \div g
                  kb == a[2] \div g
              IN  IF Fits(a[1], ka) /\ Fits(b[1], kb) /\ Fits(a[2], ka)
                  THEN Rat(a[1] * ka + b[1] * kb, a[2] * ka)
                  ELSE Fin
    ELSE IF a = NaN \/ b = NaN THEN NaN
    ELSE IF a = Unk \/ b = Unk THEN Unk
    ELSE Fin

Sub(a, b) == Add(a, Neg(b))

Mul(a, b) ==
    IF a[2] # 0 /\ b[2] # 0
    THEN IF a[1] = 0 \/ b[1] = 0 THEN Zero
         ELSE LET g1 == Gcd(Abs(a[1]), b[2])
                  g2 == Gcd(Abs(b[1]), a[2])
                  n1 == a[1] \div g1
                  n2 == b[1] \div g2
                  d1 == a[2] \div g2
                  d2 == b[2] \div g1
              IN  IF Fits(n1, n2) /\ Fits(d1, d2) THEN <<n1 * n2, d1 * d2>> ELSE Fin
    ELSE IF a = NaN \/ b = NaN THEN NaN
    ELSE IF a = Unk \/ b = Unk THEN Unk
    ELSE IF a = Zero \/ b = Zero THEN Zero
    ELSE Fin

Div(a, b) ==
    IF a = NaN \/ b = Zero THEN NaN
    ELSE IF b = NaN \/ a = Unk \/ b = Unk \/ b = Fin THEN Unk
    ELSE IF a = Fin THEN Fin
    ELSE Mul(a, Rat(b[2], b[1]))

\* Order of two rationals, by their continued fractions (no products).
RECURSIVE CmpPos(_, _, _, _)
CmpPos(an, ad, bn, bd) ==
    LET qa == an \div ad
        qb == bn \div bd
        ra == an % ad
        rb == bn % bd
    IN  IF qa # qb THEN (IF qa < qb THEN -1 ELSE 1)
        ELSE IF ra = 0 /\ rb = 0 THEN 0
        ELSE IF ra = 0 THEN -1
        ELSE IF rb = 0 THEN 1
        ELSE CmpPos(bd, rb, ad, ra)

Cmp(a, b) ==
    IF a[1] < 0 /\ b[1] >= 0 THEN -1
    ELSE IF a[1] >= 0 /\ b[1] < 0 THEN 1
    ELSE IF a[1] < 0 THEN CmpPos(-b[1], b[2], -a[1], a[2])
    ELSE CmpPos(a[1], a[2], b[1], b[2])

Less(a, b) == Cmp(a, b) < 0
Leq(a, b)  == Cmp(a, b) <= 0
AbsR(a)    == <<Abs(a[1]), a[2]>>
MinR(a, b) == IF Less(b, a) THEN b ELSE a

-----------------------------------------------------------------------------
(* Vectors and matrices, indexed from 0 as in the code.                    *)

N_STATES == 12
N_IMU    == 9
N_WHEEL  == 2
N_LIDAR  == 6

Idx(n) == 0 .. (n - 1)

\* B applied to the value of e.  The value is computed once, before B is
\* entered.
With(e, B(_)) == CHOOSE r \in {B(v) : v \in {e}} : TRUE

\* The vector v and the matrix M as explicit tables of their entries
RECURSIVE Table(_, _, _)
Table(f, lo, hi) ==
    IF lo = hi THEN lo :> f[lo]
    ELSE LET mid == (lo + hi) \div 2
         IN  Table(f, lo, mid) @@ Table(f, mid + 1, hi)

EvalV(v) == Table(v, 0, Cardinality(DOMAIN v) - 1)
EvalM(M) == Table([i \in DOMAIN M |-> EvalV(M[i])], 0, Cardinality(DOMAIN M) - 1)

\* The sum of A[i][k] * B[k][j] for k = 0 .. n, and of A[i][k] * v[k]
RECURSIVE Dot(_, _, _, _, _)
Dot(A, B, i, j, n) == IF n < 0 THEN Zero ELSE Add(Dot(A, B, i, j, n - 1), Mul(A[i][n], B[n][j]))

RECURSIVE DotV(_, _, _, _)
DotV(A, v, i, n) == IF n < 0 THEN Zero ELSE Add(DotV(A, v, i, n - 1), Mul(A[i][n], v[n]))

Rows(A) == Cardinality(DOMAIN A)
Cols(A) == Cardinality(DOMAIN A[0])

ZeroVec(n)    == EvalV([i \in Idx(n) |-> Zero])
ZeroMat(n, m) == EvalM([i \in Idx(n) |-> [j \in Idx(m) |-> Zero]])
Identity(n)   == EvalM([i \in Idx(n) |-> [j \in Idx(n) |-> IF i = j THEN One ELSE Zero]])

VAdd(u, v)   == EvalV([i \in DOMAIN u |-> Add(u[i], v[i])])
VSub(u, v)   == EvalV([i \in DOMAIN u |-> Sub(u[i], v[i])])
VScale(u, c) == EvalV([i \in DOMAIN u |-> Mul(u[i], c)])
VDiv(u, c)   == EvalV([i \in DOMAIN u |-> Div(u[i], c)])

MAdd(A, B)   == EvalM([i \in DOMAIN A |-> [j \in DOMAIN A[i] |-> Add(A[i][j], B[i][j])]])
MSub(A, B)   == EvalM([i \in DOMAIN A |-> [j \in DOMAIN A[i] |-> Sub(A[i][j], B[i][j])]])
MScale(A, c) == EvalM([i \in DOMAIN A |-> [j \in DOMAIN A[i] |-> Mul(c, A[i][j])]])
Transpose(A) == EvalM([j \in DOMAIN A[0] |-> [i \in DOMAIN A |-> A[i][j]]])

\* The indices k <= n at which v[k] is not an exact zero, in increasing order
RECURSIVE NzIdx(_, _)
NzIdx(v, n) ==
    IF n < 0 THEN <<>>
    ELSE IF v[n] = Zero THEN NzIdx(v, n - 1) ELSE Append(NzIdx(v, n - 1), n)

\* The sum of A[i][k] * B[k][j] over the first m indices k of idx
RECURSIVE DotAt(_, _, _, _, _, _)
DotAt(A, B, i, j, idx, m) ==
    IF m = 0 THEN Zero
    ELSE Add(DotAt(A, B, i, j, idx, m - 1), Mul(A[i][idx[m]], B[idx[m]][j]))

\* No entry of M is NaN or untracked
NoNaN(M) == \A i \in DOMAIN M : \A j \in DOMAIN M[i] : M[i][j] # NaN /\ M[i][j] # Unk

MatVec(A, v) ==
    LET n == Cardinality(DOMAIN v) - 1
    IN  EvalV([i \in DOMAIN A |-> DotV(A, v, i, n)])

\* The product A B.  A term with an exact zero factor and a finite other
\* factor adds nothing to its sum, so when both matrices are free of NaN the
\* sums run over the other terms only, in the same order.
MatMul(A, B) ==
    LET n == Rows(B) - 1
    IN  IF NoNaN(A) /\ NoNaN(B)
        THEN LET Bt  == Transpose(B)
                 rnz == EvalV([i \in DOMAIN A |-> NzIdx(A[i], n)])
                 cnz == EvalV([j \in DOMAIN Bt |-> NzIdx(Bt[j], n)])
             IN  EvalM([i \in DOMAIN A |-> [j \in DOMAIN Bt |->
                     LET idx == IF Len(rnz[i]) <= Len(cnz[j]) THEN rnz[i] ELSE cnz[j]
                     IN  DotAt(A, B, i, j, idx, Len(idx))]])
        ELSE EvalM([i \in DOMAIN A |-> [j \in DOMAIN B[0] |-> Dot(A, B, i, j, n)]])

\* M.block(r, c, n, m) and v.block(r, 0, n, 1)
Block(M, r, c, n, m) == EvalM([i \in Idx(n) |-> [j \in Idx(m) |-> M[r + i][c + j]]])
Seg(v, r, n)         == EvalV([i \in Idx(n) |-> v[r + i]])

\* M.block(r, c, n, m) = B
SetBlock(M, r, c, B) ==
    EvalM([i \in DOMAIN M |-> [j \in DOMAIN M[i] |->
        IF i - r \in DOMAIN B /\ j - c \in DOMAIN B[0] THEN B[i - r][j - c] ELSE M[i][j]]])

AllExact(M) == \A i \in DOMAIN M : \A j \in DOMAIN M[i] : IsExact(M[i][j])
ConstMat(n, v) == EvalM([i \in Idx(n) |-> [j \in Idx(n) |-> v]])

\* Gauss-Jordan elimination of the augmented pair (A, B) from column k on:
\* B ends as the inverse of the exact matrix A, or <<>> when a column has no
\* pivot (A is singular).
RECURSIVE GaussJordan(_, _, _, _)
GaussJordan(A, B, k, n) ==
    IF k = n THEN B
    ELSE LET piv == {r \in k .. (n - 1) : A[r][k] # Zero}
         IN  IF piv = {} THEN <<>>
             ELSE LET p  == CHOOSE r \in piv : \A q \in piv : r <= q
                      sw(M) == [i \in Idx(n) |-> IF i = k THEN M[p]
                                                 ELSE IF i = p THEN M[k] ELSE M[i]]
                      A1 == sw(A)
                      B1 == sw(B)
                      d  == A1[k][k]
                      rowA == [j \in Idx(n) |-> Div(A1[k][j], d)]
                      rowB == [j \in Idx(n) |-> Div(B1[k][j], d)]
                      A2 == [i \in Idx(n) |-> IF i = k THEN rowA
                              ELSE IF A1[i][k] = Zero THEN A1[i]
                              ELSE [j \in Idx(n) |-> Sub(A1[i][j], Mul(A1[i][k], rowA[j]))]]
                      B2 == [i \in Idx(n) |-> IF i = k THEN rowB
                              ELSE IF A1[i][k] = Zero THEN B1[i]
                              ELSE [j \in Idx(n) |-> Sub(B1[i][j], Mul(A1[i][k], rowB[j]))]]
                  IN  GaussJordan(A2, B2, k + 1, n)

\* Eigen's M.inverse().  It makes no invertibility check: a singular matrix
\* divides by a zero determinant or pivot, which leaves non-finite values in
\* every column of the result.
Inverse(M) ==
    LET n == Rows(M)
    IN  IF ~AllExact(M) THEN ConstMat(n, Unk)
        ELSE LET R == GaussJordan(M, Identity(n), 0, n)
             IN  IF R = <<>> THEN ConstMat(n, NaN) ELSE EvalM(R)

-----------------------------------------------------------------------------
(* Transcendental functions.                                               *)

\* sin(x)/x for a small non-zero x: a value strictly between 0 and 1.
SincStep == Rat(9, 10)

\* |x| up to which the sine is tracked: the steps of the numeric Jacobians
\* and the output differences they produce.
SmallAngle == Rat(1, 100)

\* The double nearest to pi, as a rational.
Pi == Rat(22, 7)

Sin(x) ==
    IF ~IsExact(x) THEN (IF x = Fin THEN Fin ELSE x)
    ELSE IF x = Zero THEN Zero
    ELSE IF Leq(AbsR(x), SmallAngle) THEN Mul(x, SincStep)
    ELSE Fin

Cos(x) ==
    IF ~IsExact(x) THEN (IF x = Fin THEN Fin ELSE x)
    ELSE IF x = Zero THEN One ELSE Fin

Tan(x) ==
    IF ~IsExact(x) THEN (IF x = Fin THEN Fin ELSE x)
    ELSE IF x = Zero THEN Zero ELSE Fin

\* 1/cos(x): the cosine of a double is never 0, so the quotient is finite.
Sec(x) ==
    IF ~IsExact(x) THEN (IF x = Fin THEN Fin ELSE x)
    ELSE IF x = Zero THEN One ELSE Fin

\* atan2(sin(d), cos(d)): the angle d brought into (-pi, pi].
RECURSIVE WrapAngle(_)
WrapAngle(d) ==
    IF ~IsExact(d) THEN d
    ELSE IF Less(Pi, d) THEN WrapAngle(Sub(d, Mul(Rat(2, 1), Pi)))
    ELSE IF Leq(d, Neg(Pi)) THEN WrapAngle(Add(d, Mul(Rat(2, 1), Pi)))
    ELSE d

\* Eigen::AngleAxisd(a, UnitX / UnitY / UnitZ) as rotation matrices.
RotX(a) == <<
    <<One, Zero, Zero>>,
    <<Zero, Cos(a), Neg(Sin(a))>>,
    <<Zero, Sin(a), Cos(a)>> >>
RotY(a) == <<
    <<Cos(a), Zero, Sin(a)>>,
    <<Zero, One, Zero>>,
    <<Neg(Sin(a)), Zero, Cos(a)>> >>
RotZ(a) == <<
    <<Cos(a), Neg(Sin(a)), Zero>>,
    <<Sin(a), Cos(a), Zero>>,
    <<Zero, Zero, One>> >>

\* A tuple of tuples as a matrix indexed from 0.
Mat0(T) == EvalM([i \in Idx(Len(T)) |-> [j \in Idx(Len(T[1])) |-> T[i + 1][j + 1]]])

\* R = Rz*Ry*Rx of the angles (roll, pitch, yaw)
RotationRPY(roll, pitch, yaw) ==
    With(MatMul(Mat0(RotZ(yaw)), Mat0(RotY(pitch))), LAMBDA RzRy :
        MatMul(RzRy, Mat0(RotX(roll))))

\* J: body angular rate -> Euler angle rate, at (roll, pitch)
EulerRateJ(roll, pitch) == Mat0(<<
    <<One, Mul(Sin(roll), Tan(pitch)), Mul(Cos(roll), Tan(pitch))>>,
    <<Zero, Cos(roll), Neg(Sin(roll))>>,
    <<Zero, Mul(Sin(roll), Sec(pitch)), Mul(Cos(roll), Sec(pitch))>> >>)

-----------------------------------------------------------------------------
(* Models and their numeric Jacobians.                                     *)

f_prediction_model(x, dt) ==
    With(RotationRPY(x[3], x[4], x[5]), LAMBDA R :
    With(EulerRateJ(x[3], x[4]), LAMBDA J :
    With(SetBlock(SetBlock(Identity(6), 0, 0, R), 3, 3, J), LAMBDA A :
    With(VScale(MatVec(A, Seg(x, 6, 6)), dt), LAMBDA step :
        EvalV([i \in Idx(N_STATES) |-> IF i < 6 THEN Add(x[i], step[i]) ELSE x[i]])))))

DeltaState == Rat(1, 10000)

\* Variant: every row the plain difference quotient
JacobianColumnRaw(f0, f1, delta) == EvalV([r \in DOMAIN f0 |-> Div(Sub(f1[r], f0[r]), delta)])

\* One column of a numeric Jacobian: (f1 - f0)/delta, the rows 3..5 (angles)
\* replaced by sin(f1 - f0)/delta.
JacobianColumn(f0, f1, delta) ==
    EvalV([r \in DOMAIN f0 |->
        IF r \in 3 .. 5 THEN Div(Sin(Sub(f1[r], f0[r])), delta)
        ELSE Div(Sub(f1[r], f0[r]), delta)])

jacobian_state(x, dt) ==
    With(f_prediction_model(x, dt), LAMBDA f0 :
    With(EvalM([i \in Idx(N_STATES) |->
            With(f_prediction_model([x EXCEPT ![i] = Add(x[i], DeltaState)], dt), LAMBDA f1 :
                JacobianColumn(f0, f1, DeltaState))]), LAMBDA cols :
        Transpose(cols)))

\* initialization(): X = 0, P = 0.1 I, E_pred = 0.01 * P on the velocity block
P_init == MScale(Identity(N_STATES), Rat(1, 10))
X_init == ZeroVec(N_STATES)
E_pred == SetBlock(ZeroMat(N_STATES, N_STATES), 6, 6, MScale(Block(P_init, 6, 6, 6, 6), Rat(1, 100)))

\* Variant: the covariance propagated as F P + E_pred, the transpose left out
PredictionNoTranspose(X, P, dt) ==
    With(jacobian_state(X, dt), LAMBDA F :
    With(f_prediction_model(X, dt), LAMBDA Xp :
    With(MatMul(F, P), LAMBDA FP :
        <<Xp, MAdd(FP, E_pred)>>)))

\* prediction_stage(dt): the new <<X, P>>
prediction_stage(X, P, dt) ==
    With(jacobian_state(X, dt), LAMBDA F :
    With(f_prediction_model(X, dt), LAMBDA Xp :
    With(MatMul(F, P), LAMBDA FP :
    With(MatMul(FP, Transpose(F)), LAMBDA FPFt :
        <<Xp, MAdd(FPFt, E_pred)>>))))

\* The Kalman update shared by the three corrections:
\*   S = H P H' + E;  K = P H' S^-1;  X = X + K (Y - hx);  P = P - K H P
InnovationCovariance(P, H, E) == MAdd(MatMul(MatMul(H, P), Transpose(H)), E)

KalmanUpdate(X, P, H, Y, hx, E) ==
    With(Transpose(H), LAMBDA Ht :
    With(InnovationCovariance(P, H, E), LAMBDA S :
    With(MatMul(P, Ht), LAMBDA PHt :
    With(MatMul(PHt, Inverse(S)), LAMBDA K :
    With(MatVec(K, VSub(Y, hx)), LAMBDA dX :
    With(MatMul(K, H), LAMBDA KH :
    With(MatMul(KH, P), LAMBDA KHP :
        <<VAdd(X, dX), MSub(P, KHP)>>)))))))

H_wheel == EvalM([i \in Idx(N_WHEEL) |-> [j \in Idx(N_STATES) |->
              IF (i = 0 /\ j = 6) \/ (i = 1 /\ j = 11) THEN One ELSE Zero]])
H_imu   == SetBlock(ZeroMat(3, N_STATES), 0, 3, Identity(3))
H_lidar == SetBlock(ZeroMat(N_LIDAR, N_STATES), 0, 6, Identity(N_LIDAR))

\* correction_wheel_stage: hx = (X(6), X(11)), Y = wheelMeasure, E = E_wheel
correction_wheel_stage(X, P, wheelMeasure, E_wheel) ==
    KalmanUpdate(X, P, H_wheel, wheelMeasure, EvalV([i \in Idx(N_WHEEL) |-> IF i = 0 THEN X[6] ELSE X[11]]), E_wheel)

\* correction_imu_stage: hx = X(3..5), Y = imuMeasure(6..8), E = E_imu(6..8, 6..8);
\* the innovation is the plain difference Y - hx
correction_imu_stage(X, P, imuMeasure, E_imu) ==
    KalmanUpdate(X, P, H_imu, Seg(imuMeasure, 6, 3), Seg(X, 3, 3), Block(E_imu, 6, 6, 3, 3))

\* The innovation covariance S = H P H' + E of each correction
S_wheel(P, E_wheel) == InnovationCovariance(P, H_wheel, E_wheel)
S_imu(P, E_imu)     == InnovationCovariance(P, H_imu, Block(E_imu, 6, 6, 3, 3))
S_lidar(P, Q)       == InnovationCovariance(P, H_lidar, Q)

\* J.inverse() of the Euler-rate matrix J at (roll, pitch).  The determinant
\* of J is 1/cos(pitch), finite and non-zero for every double, so the inverse
\* is the finite matrix below.
EulerRateJInverse(roll, pitch) == Mat0(<<
    <<One, Zero, Neg(Sin(pitch))>>,
    <<Zero, Cos(roll), Mul(Sin(roll), Cos(pitch))>>,
    <<Zero, Neg(Sin(roll)), Mul(Cos(roll), Cos(pitch))>> >>)

\* indirect_lidar_measurement(u, ul, dt): the twist A * u_diff / dt, where
\* u_diff is u - ul with its three angle rows wrapped by atan2(sin, cos)
indirect_lidar_measurement(u, ul, dt) ==
    With(RotationRPY(ul[3], ul[4], ul[5]), LAMBDA R :
    With(EvalV([i \in Idx(N_LIDAR) |->
            IF i < 3 THEN Sub(u[i], ul[i]) ELSE WrapAngle(Sub(u[i], ul[i]))]), LAMBDA u_diff :
    With(SetBlock(SetBlock(ZeroMat(N_LIDAR, N_LIDAR), 0, 0, Transpose(R)),
                  3, 3, EulerRateJInverse(ul[3], ul[4])), LAMBDA A :
        VDiv(MatVec(A, u_diff), dt))))

DeltaLidar == Rat(1, 10000000)

jacobian_lidar_measurement(u, ul, dt) ==
    With(indirect_lidar_measurement(u, ul, dt), LAMBDA f0 :
    With(EvalM([i \in Idx(N_LIDAR) |->
            With(indirect_lidar_measurement([u EXCEPT ![i] = Add(u[i], DeltaLidar)], ul, dt),
                 LAMBDA f1 : JacobianColumn(f0, f1, DeltaLidar))]), LAMBDA cols :
        Transpose(cols)))

jacobian_lidar_measurementL(u, ul, dt) ==
    With(indirect_lidar_measurement(u, ul, dt), LAMBDA f0 :
    With(EvalM([i \in Idx(N_LIDAR) |->
            With(indirect_lidar_measurement(u, [ul EXCEPT ![i] = Add(ul[i], DeltaLidar)], dt),
                 LAMBDA f1 : JacobianColumn(f0, f1, DeltaLidar))]), LAMBDA cols :
        Transpose(cols)))

\* correction_lidar_stage(dt): <<X, P, Y, Q>>, the new state and covariance
\* and the twist and covariance handed to publish_indirect_lidar_measurement
correction_lidar_stage(X, P, lidarMeasure, lidarMeasureL, E_lidar, E_lidarL, dt) ==
    With(indirect_lidar_measurement(lidarMeasure, lidarMeasureL, dt), LAMBDA Y :
    With(jacobian_lidar_measurement(lidarMeasure, lidarMeasureL, dt), LAMBDA G :
    With(jacobian_lidar_measurementL(lidarMeasure, lidarMeasureL, dt), LAMBDA Gl :
    With(MatMul(MatMul(G, E_lidar), Transpose(G)), LAMBDA GEGt :
    With(MatMul(MatMul(Gl, E_lidarL), Transpose(Gl)), LAMBDA GlEGlt :
    With(MAdd(GEGt, GlEGlt), LAMBDA Q :
    With(KalmanUpdate(X, P, H_lidar, Y, Seg(X, 6, 6), Q), LAMBDA XP :
        <<XP[1], XP[2], Y, Q>>)))))))

\* The adaptive covariance constants set by initialization()
nCorner == Rat(500, 1)
nSurf   == Rat(5000, 1)
Gx      == Rat(22, 10000)
Gy      == Rat(16, 10000)
Gz      == Rat(48, 10000)
Gphi    == Rat(52, 10000)
Gtheta  == Rat(50, 10000)
Gpsi    == Rat(44, 10000)
l_min   == Rat(5, 1000)

\* Variant: the count not limited to n
CovScaleNoClamp(f, n) == Add(Div(Sub(n, f), n), l_min)

\* (n - min(f, n))/n + l_min
CovScale(f, n) == Add(Div(Sub(n, MinR(f, n)), n), l_min)

\* adaptive_covariance(fCorner, fSurf) under the gain lidarG
adaptive_covariance(fCorner, fSurf, lidarG) ==
    LET cov_c == CovScale(fCorner, nCorner)
        cov_s == CovScale(fSurf, nSurf)
        d == <<Mul(Mul(lidarG, Gx), cov_c), Mul(Mul(lidarG, Gy), cov_c),
               Mul(Mul(lidarG, Gz), cov_s), Mul(Mul(lidarG, Gphi), cov_s),
               Mul(Mul(lidarG, Gtheta), cov_s), Mul(Mul(lidarG, Gpsi), cov_c)>>
    IN  EvalM([i \in Idx(N_LIDAR) |-> [j \in Idx(N_LIDAR) |-> IF i = j THEN d[i + 1] ELSE Zero]])

-----------------------------------------------------------------------------
(* The node: parameters, staged records, estimate and the loop of run().   *)

VARIABLES
    cfg,            \* the parameters read by main()
    X, P,           \* the estimate
    imu, wheel, lidar,  \* the staging slot of each sensor
    pc,             \* the position of main() / run()
    t_last, dt_now, \* locals of run()
    hpc,            \* the subscription callback in progress
    pub,            \* the messages published since the tick began
    ticks, msgs,    \* loop iterations begun, messages delivered
    stages,         \* history: the stages executed since the tick began
    sent,           \* history: the last message each handler completed
    used            \* history: the operands read by each sensor's last correction

vars == <<cfg, X, P, imu, wheel, lidar, pc, t_last, dt_now, hpc, pub, ticks, msgs, stages, sent, used>>

\* Bounds of the model
MaxTicks == 3
MaxMsgs  == 2

\* Elapsed clock time between two readings of the clock by run()
DtSet == {Zero, One}

Vec3(a, b, c) == EvalV([i \in Idx(3) |-> IF i = 0 THEN a ELSE IF i = 1 THEN b ELSE c])
Diag3(v)      == MScale(Identity(3), v)

\* The parameters declared by main(); the first is the set of defaults
DefaultCfg ==
    [enableFilter |-> TRUE, enableImu |-> TRUE, enableWheel |-> TRUE, enableLidar |-> TRUE,
     filterFreq |-> "l", lidarG |-> Rat(1000, 1), wheelG |-> Rat(1, 20), imuG |-> Rat(1, 10)]

\* Only the wheel correction enabled, under another gain and publish trigger
WheelOnlyCfg ==
    [DefaultCfg EXCEPT !.enableImu = FALSE, !.enableLidar = FALSE, !.filterFreq = "w",
                       !.wheelG = Rat(2, 1)]

\* The filter disabled: main() does not call run()
DisabledCfg == [DefaultCfg EXCEPT !.enableFilter = FALSE]

Configs == {DefaultCfg, WheelOnlyCfg, DisabledCfg}

\* Messages of the three topics.  An orientation is named by the roll, pitch
\* and yaw that getRPY returns for its quaternion.
ImuMsg(yaw, c) ==
    [rpy |-> Vec3(Zero, Zero, yaw), orientation_covariance |-> Diag3(c),
     linear_acceleration |-> ZeroVec(3), angular_velocity |-> ZeroVec(3),
     linear_acceleration_covariance |-> ZeroMat(3, 3),
     angular_velocity_covariance |-> ZeroMat(3, 3)]
ImuInputs == {ImuMsg(Zero, Zero), ImuMsg(One, One)}
ImuGaps   == {Rat(1, 100)}

WheelMsg(v, c0, c35) == [linear_x |-> v, angular_z |-> Zero, cov0 |-> c0, cov35 |-> c35]
WheelInputs == {WheelMsg(Zero, Zero, Zero), WheelMsg(One, One, One)}
WheelGaps   == {Rat(1, 20)}

LidarMsg(x, corner, surf) ==
    [pose |-> EvalV([i \in Idx(N_LIDAR) |-> IF i = 0 THEN x ELSE Zero]), corner |-> corner, surf |-> surf]
LidarInputs == {LidarMsg(Zero, nCorner, nSurf), LidarMsg(One, Zero, Zero)}
LidarGaps   == {Rat(1, 10), Rat(3, 10)}

\* The stamp of a sensor's next message: its first message is stamped 0, a
\* later one follows the previous by one of the gaps
Stamps(slot, gaps) == IF slot.Activated THEN {Add(slot.TimeCurrent, g) : g \in gaps} ELSE {Zero}

NsPerSec == 1000000000

\* rclcpp::Time(static_cast<int64_t>(t * 1e9)): t cut to whole nanoseconds
TruncNs(t) == IF IsExact(t) /\ NsPerSec % t[2] # 0 THEN Fin ELSE t

NoHandler == [h |-> "none"]

\* The staging slots as initialization() leaves them (imu_dt is not set)
ImuSlot0 ==
    [Measure |-> ZeroVec(N_IMU), E |-> ZeroMat(N_IMU, N_IMU), Activated |-> FALSE,
     New |-> FALSE, TimeLast |-> Zero, TimeCurrent |-> Zero, dt |-> Unk,
     header |-> Zero, id |-> 0]
WheelSlot0 ==
    [Measure |-> ZeroVec(N_WHEEL), E |-> ZeroMat(N_WHEEL, N_WHEEL), Activated |-> FALSE,
     New |-> FALSE, TimeLast |-> Zero, TimeCurrent |-> Zero, dt |-> Rat(1, 20),
     header |-> Zero, id |-> 0]
\* Variant: the retained pose and covariance start away from zero
LidarSlotSeeded ==
    [Measure |-> ZeroVec(N_LIDAR), E |-> ZeroMat(N_LIDAR, N_LIDAR),
     MeasureL |-> EvalV([i \in Idx(N_LIDAR) |-> IF i = 0 THEN One ELSE Zero]),
     E_L |-> Identity(N_LIDAR),
     Activated |-> FALSE, New |-> FALSE, TimeLast |-> Zero, TimeCurrent |-> Zero,
     dt |-> Rat(1, 10), header |-> Zero, id |-> 0]

LidarSlot0 ==
    [Measure |-> ZeroVec(N_LIDAR), E |-> ZeroMat(N_LIDAR, N_LIDAR),
     MeasureL |-> ZeroVec(N_LIDAR), E_L |-> ZeroMat(N_LIDAR, N_LIDAR),
     Activated |-> FALSE, New |-> FALSE, TimeLast |-> Zero, TimeCurrent |-> Zero,
     dt |-> Rat(1, 10), header |-> Zero, id |-> 0]

\* initialization(), and the position main() starts from
Init ==
    /\ cfg \in Configs
    /\ X = X_init
    /\ P = P_init
    /\ imu = ImuSlot0
    /\ wheel = WheelSlot0
    /\ lidar = LidarSlot0
    /\ pc = IF cfg.enableFilter THEN "predict" ELSE "spinOnly"
    /\ t_last = Zero
    /\ dt_now = Zero
    /\ hpc = NoHandler
    /\ pub = <<>>
    /\ ticks = 0
    /\ msgs = 0
    /\ stages = <<>>
    /\ sent = [imu |-> <<>>, wheel |-> <<>>, lidar |-> <<>>]
    /\ used = [imu |-> <<>>, wheel |-> <<>>, lidar |-> <<>>]

-----------------------------------------------------------------------------
(* The subscription callbacks.  Each is two steps: the times and the       *)
(* payload, then the covariance, the header and the fresh flag.            *)

\* rclcpp::spin_some at the end of a tick, or rclcpp::spin when run() is not
\* called: the only places where the node's callbacks are dispatched
\* Variant: the callbacks dispatched from a thread of their own
HandlersRunAnyTime == TRUE

HandlersMayRun == pc \in {"spin", "spinOnly"}

\* The times written at the start of a handler; nominal is the sensor's period
StampTimes(slot, stamp, nominal) ==
    IF slot.Activated
    THEN [slot EXCEPT !.TimeLast = slot.TimeCurrent, !.TimeCurrent = stamp]
    ELSE [slot EXCEPT !.TimeCurrent = stamp, !.TimeLast = Add(stamp, nominal), !.Activated = TRUE]

\* imuMeasure << acceleration, angular velocity, roll, pitch, yaw
imuMeasureOf(in) ==
    EvalV([i \in Idx(N_IMU) |->
        IF i < 3 THEN in.linear_acceleration[i]
        ELSE IF i < 6 THEN in.angular_velocity[i - 3] ELSE in.rpy[i - 6]])

\* E_imu: the three covariance blocks of the message, the orientation block
\* then scaled by imuG
E_imu_of(E, in, imuG) ==
    With(SetBlock(SetBlock(SetBlock(E, 0, 0, in.linear_acceleration_covariance),
                           3, 3, in.angular_velocity_covariance),
                  6, 6, in.orientation_covariance), LAMBDA E0 :
        SetBlock(E0, 6, 6, MScale(Block(E0, 6, 6, 3, 3), imuG)))

imuHandlerStart ==
    /\ HandlersMayRun /\ hpc = NoHandler /\ msgs < MaxMsgs
    /\ \E in \in ImuInputs, stamp \in Stamps(imu, ImuGaps) :
          /\ imu' = [StampTimes(imu, stamp, Rat(1, 100)) EXCEPT !.Measure = imuMeasureOf(in)]
          /\ hpc' = [h |-> "imu", msg |-> in]
    /\ msgs' = msgs + 1
    /\ UNCHANGED <<cfg, X, P, wheel, lidar, pc, t_last, dt_now, pub, ticks, stages, sent, used>>

imuHandlerFinish ==
    /\ HandlersMayRun /\ hpc.h = "imu"
    /\ LET in == hpc.msg
       IN  /\ imu' = [imu EXCEPT !.E = E_imu_of(imu.E, in, cfg.imuG), !.dt = Rat(1, 100),
                                 !.header = TruncNs(imu.TimeCurrent), !.New = TRUE, !.id = msgs]
           /\ sent' = [sent EXCEPT !.imu = <<[msg |-> in, id |-> msgs]>>]
    /\ hpc' = NoHandler
    /\ UNCHANGED <<cfg, X, P, wheel, lidar, pc, t_last, dt_now, pub, ticks, msgs, stages, used>>

wheelOdometryHandlerStart ==
    /\ HandlersMayRun /\ hpc = NoHandler /\ msgs < MaxMsgs
    /\ \E in \in WheelInputs, stamp \in Stamps(wheel, WheelGaps) :
          /\ wheel' = [StampTimes(wheel, stamp, Rat(1, 20)) EXCEPT
                          !.Measure = EvalV([i \in Idx(N_WHEEL) |->
                              IF i = 0 THEN Mul(One, in.linear_x) ELSE in.angular_z])]
          /\ hpc' = [h |-> "wheel", msg |-> in]
    /\ msgs' = msgs + 1
    /\ UNCHANGED <<cfg, X, P, imu, lidar, pc, t_last, dt_now, pub, ticks, stages, sent, used>>

\* The two covariance entries wheelOdometryHandler writes
E_wheel00(wheelG, cov0)  == Mul(wheelG, cov0)
E_wheel11(wheelG, cov35) == Mul(Rat(100, 1), cov35)

wheelOdometryHandlerFinish ==
    /\ HandlersMayRun /\ hpc.h = "wheel"
    /\ LET in == hpc.msg
       IN  /\ wheel' = [wheel EXCEPT
                           !.E = [wheel.E EXCEPT ![0][0] = E_wheel00(cfg.wheelG, in.cov0),
                                                 ![1][1] = E_wheel11(cfg.wheelG, in.cov35)],
                           !.dt = Rat(1, 20), !.header = TruncNs(wheel.TimeCurrent),
                           !.New = TRUE, !.id = msgs]
           /\ sent' = [sent EXCEPT !.wheel = <<[msg |-> in, id |-> msgs]>>]
    /\ hpc' = NoHandler
    /\ UNCHANGED <<cfg, X, P, imu, lidar, pc, t_last, dt_now, pub, ticks, msgs, stages, used>>

\* Variant: an arrival does not replace a pose that is still unread
lidarMeasureKeepsUnread(in) == IF lidar.New THEN lidar.Measure ELSE in.pose

\* lidarMeasure << position, roll, pitch, yaw of the message
lidarMeasureOf(in) == in.pose

laserOdometryHandlerStart ==
    /\ HandlersMayRun /\ hpc = NoHandler /\ msgs < MaxMsgs
    /\ \E in \in LidarInputs, stamp \in Stamps(lidar, LidarGaps) :
          /\ lidar' = [StampTimes(lidar, stamp, Rat(1, 10)) EXCEPT !.Measure = lidarMeasureOf(in)]
          /\ hpc' = [h |-> "lidar", msg |-> in]
    /\ msgs' = msgs + 1
    /\ UNCHANGED <<cfg, X, P, imu, wheel, pc, t_last, dt_now, pub, ticks, stages, sent, used>>

\* lidar_dt = lidarTimeCurrent - lidarTimeLast; lidar_dt = 0.1;
lidar_dt_of(TimeCurrent, TimeLast) == Rat(1, 10)

laserOdometryHandlerFinish ==
    /\ HandlersMayRun /\ hpc.h = "lidar"
    /\ LET in == hpc.msg
       IN  /\ lidar' = [lidar EXCEPT
                           !.E = adaptive_covariance(in.corner, in.surf, cfg.lidarG),
                           !.dt = lidar_dt_of(lidar.TimeCurrent, lidar.TimeLast),
                           !.header = TruncNs(lidar.TimeCurrent), !.New = TRUE, !.id = msgs]
           /\ sent' = [sent EXCEPT !.lidar = <<[msg |-> in, id |-> msgs]>>]
    /\ hpc' = NoHandler
    /\ UNCHANGED <<cfg, X, P, imu, wheel, pc, t_last, dt_now, pub, ticks, msgs, stages, used>>

-----------------------------------------------------------------------------
(* run(): one tick is the prediction, the three guarded corrections, each  *)
(* followed by the clearing of its flag, and spin_some.                    *)

\* publish_odom(model) and publish_indirect_lidar_measurement
Published(topic, model, msg) == [topic |-> topic, model |-> model, msg |-> msg]

\* What publish_odom copies into the message: the pose and the twist of x and
\* the two diagonal 6 x 6 blocks of p.  The orientation quaternion is named
\* by the roll, pitch and yaw given to setRPY.
FilteredOdometry(x, p) ==
    [position |-> Seg(x, 0, 3), orientation |-> Seg(x, 3, 3), twist |-> Seg(x, 6, 6),
     pose_covariance |-> Block(p, 0, 0, 6, 6), twist_covariance |-> Block(p, 6, 6, 6, 6)]

\* What publish_indirect_lidar_measurement copies into the message
IndirectOdometry(y, Q) == [twist |-> y, twist_covariance |-> Q]

\* Variant: the estimate published after every stage, whatever the trigger
PublishEveryStage(log, model, stage, x, p) ==
    Append(log, Published("filtered", model, FilteredOdometry(x, p)))

\* if (filterFreq == stage) publish_odom(model), after a stage that left x, p
publish_odom(log, model, stage, x, p) ==
    IF cfg.filterFreq = stage
    THEN Append(log, Published("filtered", model, FilteredOdometry(x, p)))
    ELSE log

\* Variant: the prediction skipped on a tick that has no fresh measurement
RunPredictionWhenFresh == cfg.enableFilter /\ (imu.New \/ wheel.New \/ lidar.New)

\* Variant: the wheel correction run on every tick once the sensor is active
CorrectWheelGuardNoFlag == cfg.enableFilter /\ cfg.enableWheel /\ wheel.Activated

\* if (enableFilter) around the prediction, and the guard of each correction
RunPrediction      == cfg.enableFilter
CorrectImuGuard    == cfg.enableFilter /\ cfg.enableImu /\ imu.Activated /\ imu.New
CorrectWheelGuard  == cfg.enableFilter /\ cfg.enableWheel /\ wheel.Activated /\ wheel.New
CorrectLidarGuard  == cfg.enableFilter /\ cfg.enableLidar /\ lidar.Activated /\ lidar.New

Predict ==
    /\ pc = "predict"
    /\ ticks' = ticks + 1
    /\ IF RunPrediction
       THEN \E d \in DtSet :
              LET t_now == Add(t_last, d)
                  dt    == Sub(t_now, t_last)
                  XP    == prediction_stage(X, P, dt)
              IN  /\ dt_now' = dt
                  /\ t_last' = t_now
                  /\ X' = XP[1]
                  /\ P' = XP[2]
                  /\ stages' = <<"p">>
                  /\ pub' = publish_odom(<<>>, "p", "p", X', P')
       ELSE /\ stages' = <<>>
            /\ pub' = <<>>
            /\ UNCHANGED <<dt_now, t_last, X, P>>
    /\ pc' = "imu"
    /\ UNCHANGED <<cfg, imu, wheel, lidar, hpc, msgs, sent, used>>

CorrectImu ==
    /\ pc = "imu"
    /\ IF CorrectImuGuard
       THEN LET XP == correction_imu_stage(X, P, imu.Measure, imu.E)
            IN  /\ X' = XP[1]
                /\ P' = XP[2]
                /\ stages' = Append(stages, "i")
                /\ pub' = publish_odom(pub, "i", "i", X', P')
                /\ used' = [used EXCEPT !.imu =
                              <<[id |-> imu.id, Measure |-> imu.Measure, E |-> imu.E, dt |-> imu.dt]>>]
                /\ pc' = "imuClear"
       ELSE /\ pc' = "wheel"
            /\ UNCHANGED <<X, P, stages, pub, used>>
    /\ UNCHANGED <<cfg, imu, wheel, lidar, t_last, dt_now, hpc, ticks, msgs, sent>>

ClearImu ==
    /\ pc = "imuClear"
    /\ imu' = [imu EXCEPT !.New = FALSE]
    /\ pc' = "wheel"
    /\ UNCHANGED <<cfg, X, P, wheel, lidar, t_last, dt_now, hpc, pub, ticks, msgs, stages, sent, used>>

CorrectWheel ==
    /\ pc = "wheel"
    /\ IF CorrectWheelGuard
       THEN LET XP == correction_wheel_stage(X, P, wheel.Measure, wheel.E)
            IN  /\ X' = XP[1]
                /\ P' = XP[2]
                /\ stages' = Append(stages, "w")
                /\ pub' = publish_odom(pub, "w", "w", X', P')
                /\ used' = [used EXCEPT !.wheel =
                              <<[id |-> wheel.id, Measure |-> wheel.Measure, E |-> wheel.E, dt |-> wheel.dt]>>]
                /\ pc' = "wheelClear"
       ELSE /\ pc' = "lidar"
            /\ UNCHANGED <<X, P, stages, pub, used>>
    /\ UNCHANGED <<cfg, imu, wheel, lidar, t_last, dt_now, hpc, ticks, msgs, sent>>

ClearWheel ==
    /\ pc = "wheelClear"
    /\ wheel' = [wheel EXCEPT !.New = FALSE]
    /\ pc' = "lidar"
    /\ UNCHANGED <<cfg, X, P, imu, lidar, t_last, dt_now, hpc, pub, ticks, msgs, stages, sent, used>>

\* The stamp of the pose the previous range correction retained, <<>> before
\* the first one
RetainedStamp == IF used.lidar = <<>> THEN <<>> ELSE used.lidar[1].stamp

\* Variant: the pose retained, the covariance that goes with it left behind
RetainPoseOnly(slot) == [slot EXCEPT !.MeasureL = slot.Measure]

\* lidarMeasureL = lidarMeasure; E_lidarL = E_lidar; at the end of the range
\* correction
RetainPose(slot) == [slot EXCEPT !.MeasureL = slot.Measure, !.E_L = slot.E]

CorrectLidar ==
    /\ pc = "lidar"
    /\ IF CorrectLidarGuard
       THEN LET R == correction_lidar_stage(X, P, lidar.Measure, lidar.MeasureL,
                                            lidar.E, lidar.E_L, lidar.dt)
            IN  /\ X' = R[1]
                /\ P' = R[2]
                /\ lidar' = RetainPose(lidar)
                /\ stages' = Append(stages, "l")
                /\ used' = [used EXCEPT !.lidar =
                              <<[id |-> lidar.id, Measure |-> lidar.Measure, MeasureL |-> lidar.MeasureL,
                                 E |-> lidar.E, E_L |-> lidar.E_L, dt |-> lidar.dt,
                                 stamp |-> lidar.TimeCurrent, stampL |-> RetainedStamp,
                                 Y |-> R[3], Q |-> R[4]]>>]
                /\ pub' = publish_odom(Append(pub, Published("indirect", "l",
                                         IndirectOdometry(used'.lidar[1].Y, used'.lidar[1].Q))),
                                     "l", "l", X', P')
                /\ pc' = "lidarClear"
       ELSE /\ pc' = "spin"
            /\ UNCHANGED <<X, P, lidar, stages, pub, used>>
    /\ UNCHANGED <<cfg, imu, wheel, t_last, dt_now, hpc, ticks, msgs, sent>>

ClearLidar ==
    /\ pc = "lidarClear"
    /\ lidar' = [lidar EXCEPT !.New = FALSE]
    /\ pc' = "spin"
    /\ UNCHANGED <<cfg, X, P, imu, wheel, t_last, dt_now, hpc, pub, ticks, msgs, stages, sent, used>>

\* spin_some returns, r.sleep(), and the test of rclcpp::ok(): the loop goes
\* on until the node is shut down
SpinDone ==
    /\ pc = "spin"
    /\ hpc = NoHandler
    /\ pc' = IF ticks < MaxTicks THEN "predict" ELSE "done"
    /\ UNCHANGED <<cfg, X, P, imu, wheel, lidar, t_last, dt_now, hpc, pub, ticks, msgs, stages, sent, used>>

Next ==
    \/ Predict
    \/ CorrectImu
    \/ ClearImu
    \/ CorrectWheel
    \/ ClearWheel
    \/ CorrectLidar
    \/ ClearLidar
    \/ SpinDone
    \/ imuHandlerStart
    \/ imuHandlerFinish
    \/ wheelOdometryHandlerStart
    \/ wheelOdometryHandlerFinish
    \/ laserOdometryHandlerStart
    \/ laserOdometryHandlerFinish

Spec == Init /\ [][Next]_vars


-----------------------------------------------------------------------------
(* Properties of the loop and of the staging slots.                        *)

\* C1: while the filter is enabled, every tick of run() executes
\* prediction_stage exactly once, and before any correction of that tick,
\* whether or not a sensor has fresh data: in every tick begun, the stages
\* executed so far start with the prediction and hold no second one.
C1_PredictionOnceAndFirst ==
    cfg.enableFilter /\ ticks > 0 =>
        /\ stages # <<>>
        /\ stages[1] = "p"
        /\ \A i \in 2 .. Len(stages) : stages[i] # "p"

\* A tick in which two corrections followed the prediction
C1_Witness == pc = "spin" /\ Len(stages) = 3 /\ stages[1] = "p"

\* The step of run() at sensor `at`: with the filter and the sensor enabled
\* the correction runs exactly when the slot's flag is set; it consumes a
\* record no earlier correction consumed; and it needs a delivered message.
RunsIffFresh(at, clear, tag, enabled, slot, u, s) ==
    pc = at /\ cfg.enableFilter /\ enabled =>
        /\ (pc' = clear /\ stages' = Append(stages, tag)) <=> slot.New
        /\ slot.New => (u = <<>> \/ u[1].id # slot.id)
        /\ s = <<>> => pc' # clear /\ stages' = stages

\* C2: for each sensor, with the filter and the sensor enabled, a tick runs
\* the sensor's correction if and only if its fresh flag is set when the tick
\* reaches it; the flag is false right after the correction; a staged record
\* triggers at most one correction; a correction clears no other sensor's
\* flag; a sensor that never delivered triggers no correction.
C2_FreshFlagGatesCorrection ==
    [][ /\ RunsIffFresh("imu", "imuClear", "i", cfg.enableImu, imu, used.imu, sent.imu)
        /\ RunsIffFresh("wheel", "wheelClear", "w", cfg.enableWheel, wheel, used.wheel, sent.wheel)
        /\ RunsIffFresh("lidar", "lidarClear", "l", cfg.enableLidar, lidar, used.lidar, sent.lidar)
        /\ pc = "imuClear" => pc' = "wheel" /\ ~imu'.New /\ wheel' = wheel /\ lidar' = lidar
        /\ pc = "wheelClear" => pc' = "lidar" /\ ~wheel'.New /\ imu' = imu /\ lidar' = lidar
        /\ pc = "lidarClear" => pc' = "spin" /\ ~lidar'.New /\ imu' = imu /\ wheel' = wheel
        /\ pc \in {"imu", "wheel", "lidar"} => imu'.New = imu.New /\ wheel'.New = wheel.New
                                               /\ lidar'.New = lidar.New
      ]_vars

\* The wheel flag cleared after a wheel correction while the inertial flag,
\* set in the same spin, is already consumed and the range sensor is silent
C2_Witness ==
    /\ pc = "lidar" /\ stages = <<"p", "i", "w">>
    /\ ~wheel.New /\ ~imu.New /\ sent.lidar = <<>>

\* C3: the handler that writes a slot and the loop that reads and clears it
\* never overlap: while a handler is between its writes the loop is inside
\* spin, so no correction reads a partly written record; and a flag the loop
\* is about to clear is the flag of the record the correction just used.
C3_SlotAccessExclusive ==
    /\ hpc # NoHandler => pc \in {"spin", "spinOnly"}
    /\ pc = "imuClear" /\ imu.New => used.imu # <<>> /\ used.imu[1].id = imu.id
    /\ pc = "wheelClear" /\ wheel.New => used.wheel # <<>> /\ used.wheel[1].id = wheel.id
    /\ pc = "lidarClear" /\ lidar.New => used.lidar # <<>> /\ used.lidar[1].id = lidar.id

\* A handler half-way through a second range record, the first one consumed
C3_Witness ==
    /\ hpc.h = "lidar" /\ pc = "spin"
    /\ used.lidar # <<>> /\ lidar.Measure # used.lidar[1].Measure

\* The payload and covariance the handlers stage for a message
StagedImuMeasure(m) ==
    [i \in Idx(N_IMU) |-> IF i < 3 THEN m.linear_acceleration[i]
                          ELSE IF i < 6 THEN m.angular_velocity[i - 3] ELSE m.rpy[i - 6]]
StagedWheelMeasure(m) == [i \in Idx(N_WHEEL) |-> IF i = 0 THEN m.linear_x ELSE m.angular_z]

\* The correction step of sensor `at` read the record of the latest message
ReadsLatest(at, clear, u, s, Measure, E) ==
    pc = at /\ pc' = clear =>
        /\ s # <<>> /\ u # <<>>
        /\ u[1].id = s[1].id
        /\ u[1].Measure = Measure
        /\ E

\* C4: the next correction of an enabled sensor uses exactly the payload and
\* covariance of the most recent handler call before it (an unconsumed record
\* is overwritten, not queued), and runs no later than the tick after the
\* write: when a tick reaches spin no enabled sensor's flag is still set.
C4_ReadYourWrites ==
    [][ /\ ReadsLatest("imu", "imuClear", used'.imu, sent.imu,
                       StagedImuMeasure(sent.imu[1].msg),
                       Block(used'.imu[1].E, 6, 6, 3, 3)
                           = MScale(sent.imu[1].msg.orientation_covariance, cfg.imuG))
        /\ ReadsLatest("wheel", "wheelClear", used'.wheel, sent.wheel,
                       StagedWheelMeasure(sent.wheel[1].msg),
                       /\ used'.wheel[1].E[0][0] = E_wheel00(cfg.wheelG, sent.wheel[1].msg.cov0)
                       /\ used'.wheel[1].E[1][1] = E_wheel11(cfg.wheelG, sent.wheel[1].msg.cov35))
        /\ ReadsLatest("lidar", "lidarClear", used'.lidar, sent.lidar,
                       sent.lidar[1].msg.pose,
                       used'.lidar[1].E = adaptive_covariance(sent.lidar[1].msg.corner,
                                                              sent.lidar[1].msg.surf, cfg.lidarG))
        /\ pc # "spin" /\ pc' = "spin" /\ cfg.enableFilter =>
              /\ cfg.enableImu => ~imu'.New
              /\ cfg.enableWheel => ~wheel'.New
              /\ cfg.enableLidar => ~lidar'.New
      ]_vars

\* Two range messages delivered in the spin of the first tick, the second
\* one read by the correction of the second tick
C4_Witness ==
    /\ ticks = 2 /\ pc = "lidarClear" /\ msgs = 2
    /\ sent.imu = <<>> /\ sent.wheel = <<>>
    /\ used.lidar[1].id = 2

-----------------------------------------------------------------------------
(* Properties of the corrections and of the staged quantities.             *)

\* S has no inverse: the elimination of the exact matrix S finds no pivot
Singular(S) == AllExact(S) /\ GaussJordan(S, Identity(Rows(S)), 0, Rows(S)) = <<>>

\* C5: in each of the three corrections, when the innovation covariance S
\* cannot be inverted the update is skipped: X and P after the correction are
\* X and P as the prediction left them.
C5_SingularUpdateSkipped ==
    [][ /\ pc = "imu" /\ pc' = "imuClear" /\ Singular(S_imu(P, imu.E)) => X' = X /\ P' = P
        /\ pc = "wheel" /\ pc' = "wheelClear" /\ Singular(S_wheel(P, wheel.E)) => X' = X /\ P' = P
        /\ pc = "lidar" /\ pc' = "lidarClear" /\ Singular(S_lidar(P, used'.lidar[1].Q))
              => X' = X /\ P' = P
      ]_vars

\* C7: the dt that divides the pose delta of a range correction is the time
\* elapsed between the current range pose and the retained previous one.
C7_TwistDtIsElapsedTime ==
    pc = "lidarClear" /\ used.lidar[1].stampL # <<>> =>
        used.lidar[1].dt = Sub(used.lidar[1].stamp, used.lidar[1].stampL)

\* C8: the covariance the wheel correction uses is diagonal, and both of its
\* diagonal entries are the message's covariance scalar times the wheel gain.
C8_WheelCovarianceScaledByGain ==
    pc = "wheelClear" /\ used.wheel[1].id = sent.wheel[1].id =>
        /\ used.wheel[1].E[0][1] = Zero /\ used.wheel[1].E[1][0] = Zero
        /\ used.wheel[1].E[0][0] = Mul(cfg.wheelG, sent.wheel[1].msg.cov0)
        /\ used.wheel[1].E[1][1] = Mul(cfg.wheelG, sent.wheel[1].msg.cov35)

-----------------------------------------------------------------------------
(* The inertial correction as a function of the state and the staged       *)
(* record: the loop entered at the inertial stage, the state and the       *)
(* message drawn from bounded sets.                                        *)

\* The yaw of the state: unwrapped, it can be a whole turn from zero
StateYaws == {Zero, Rat(1, 100), Pi, Mul(Rat(2, 1), Pi), Neg(Mul(Rat(2, 1), Pi))}

\* Messages: the yaw getRPY returns lies in [-pi, pi]
ImuStageInputs ==
    {ImuMsg(y, c) : y \in {Zero, Rat(1, 100), Pi, Neg(Pi)}, c \in {Zero, One, Rat(2, 1)}}

\* The slot after imuHandler has run once, on message in
ImuSlotAfter(in) ==
    [StampTimes(ImuSlot0, Zero, Rat(1, 100)) EXCEPT
        !.Measure = imuMeasureOf(in), !.E = E_imu_of(ImuSlot0.E, in, DefaultCfg.imuG),
        !.dt = Rat(1, 100), !.header = TruncNs(Zero), !.New = TRUE, !.id = 1]

InitImuStage ==
    /\ cfg = DefaultCfg
    /\ X \in {[X_init EXCEPT ![5] = y] : y \in StateYaws}
    /\ P = prediction_stage(X_init, P_init, Zero)[2]
    /\ \E in \in ImuStageInputs :
          /\ imu = ImuSlotAfter(in)
          /\ sent = [imu |-> <<[msg |-> in, id |-> 1]>>, wheel |-> <<>>, lidar |-> <<>>]
    /\ wheel = WheelSlot0
    /\ lidar = LidarSlot0
    /\ pc = "imu"
    /\ t_last = Zero
    /\ dt_now = Zero
    /\ hpc = NoHandler
    /\ pub = <<>>
    /\ ticks = 2
    /\ msgs = 1
    /\ stages = <<"p">>
    /\ used = [imu |-> <<>>, wheel |-> <<>>, lidar |-> <<>>]

SpecImu == InitImuStage /\ [][CorrectImu \/ ClearImu]_vars

\* C6: every difference of two angles is wrapped into (-pi, pi] before use,
\* in the twist derivation and in the inertial innovation: when the measured
\* roll, pitch and yaw differ from X[3:6] by whole turns only, the inertial
\* correction changes no component of X.
C6_WholeTurnNoChange ==
    [][ pc = "imu" /\ pc' = "imuClear"
        /\ (\A i \in Idx(3) : WrapAngle(Sub(imu.Measure[6 + i], X[3 + i])) = Zero)
        => X' = X ]_vars

-----------------------------------------------------------------------------
(* adaptive_covariance as a function of the two feature counts: the range  *)
(* handler entered after its first half, the counts of the message and the *)
(* gain drawn from bounded sets.                                           *)

CornerCounts == {Rat(-100, 1), Zero, One, Rat(250, 1), nCorner, Rat(600, 1)}
SurfCounts   == {Rat(-1, 1), Zero, Rat(2500, 1), nSurf, Rat(6000, 1)}
CovGains     == {Rat(1000, 1), One}

InitCov ==
    /\ cfg \in {[DefaultCfg EXCEPT !.lidarG = g] : g \in CovGains}
    /\ X = X_init
    /\ P = P_init
    /\ imu = ImuSlot0
    /\ wheel = WheelSlot0
    /\ \E c \in CornerCounts, f \in SurfCounts :
          /\ hpc = [h |-> "lidar", msg |-> LidarMsg(One, c, f)]
          /\ lidar = [StampTimes(LidarSlot0, Zero, Rat(1, 10)) EXCEPT
                         !.Measure = lidarMeasureOf(LidarMsg(One, c, f))]
    /\ pc = "spinOnly"
    /\ t_last = Zero
    /\ dt_now = Zero
    /\ pub = <<>>
    /\ ticks = 0
    /\ msgs = 1
    /\ stages = <<>>
    /\ sent = [imu |-> <<>>, wheel |-> <<>>, lidar |-> <<>>]
    /\ used = [imu |-> <<>>, wheel |-> <<>>, lidar |-> <<>>]

SpecCov == InitCov /\ [][laserOdometryHandlerFinish]_vars

\* The axes whose entry follows the corner count (x, y, yaw), and for an axis
\* k its count in message m, its saturation count and its gain
CornerAxes == {0, 1, 5}
CountOf(m, k)    == IF k \in CornerAxes THEN m.corner ELSE m.surf
SaturationOf(k)  == IF k \in CornerAxes THEN nCorner ELSE nSurf
AxisGain(k)      == <<Gx, Gy, Gz, Gphi, Gtheta, Gpsi>>[k + 1]

\* What C9 says of the matrix E staged for message m under gain g, all but
\* its last clause
CovShape(E, m, g) ==
    /\ \A i, j \in Idx(N_LIDAR) : i # j => E[i][j] = Zero
    /\ \A k \in Idx(N_LIDAR) :
          LET gain == Mul(g, AxisGain(k))
          IN  /\ \A c \in CornerCounts, f \in SurfCounts :
                    CountOf([corner |-> c, surf |-> f], k) = CountOf(m, k)
                        => adaptive_covariance(c, f, g)[k][k] = E[k][k]
              /\ Leq(SaturationOf(k), CountOf(m, k)) => E[k][k] = Mul(l_min, gain)
              /\ CountOf(m, k) = Zero => E[k][k] = Mul(Add(One, l_min), gain)
              /\ \A c \in CornerCounts, f \in SurfCounts :
                    Leq(CountOf(m, k), CountOf([corner |-> c, surf |-> f], k))
                        => Leq(adaptive_covariance(c, f, g)[k][k], E[k][k])

\* The scale of axis k lies in [floor, 1 + floor]
ScaleInRange(E, g, k) ==
    /\ Leq(Mul(l_min, Mul(g, AxisGain(k))), E[k][k])
    /\ Leq(E[k][k], Mul(Add(One, l_min), Mul(g, AxisGain(k))))

\* C9 as stated: adaptive_covariance returns a diagonal matrix whose x, y,
\* yaw entries depend only on fCorner and whose z, roll, pitch entries depend
\* only on fSurf; an entry is floor x gain at a count of N or more, (1 + floor)
\* x gain at a count of 0, and non-increasing in the count; and for every
\* count the handler can pass the scale lies in [floor, 1 + floor].
C9_ScaleInRangeForEveryCount ==
    sent.lidar # <<>> =>
        /\ CovShape(lidar.E, sent.lidar[1].msg, cfg.lidarG)
        /\ \A k \in Idx(N_LIDAR) : ScaleInRange(lidar.E, cfg.lidarG, k)

\* C9, amended: the same, the scale lying in [floor, 1 + floor] for every
\* count that is not negative (a negative count gives a larger scale).
C9_AdaptiveCovariance ==
    sent.lidar # <<>> =>
        /\ CovShape(lidar.E, sent.lidar[1].msg, cfg.lidarG)
        /\ \A k \in Idx(N_LIDAR) :
              Leq(Zero, CountOf(sent.lidar[1].msg, k)) => ScaleInRange(lidar.E, cfg.lidarG, k)

\* A covariance staged for a scan with more corner features than N_corner
\* and half of N_surf surface features
C9_Witness ==
    /\ sent.lidar # <<>>
    /\ sent.lidar[1].msg.corner = Rat(600, 1) /\ sent.lidar[1].msg.surf = Rat(2500, 1)
    /\ lidar.E[0][0] = Mul(l_min, Mul(cfg.lidarG, Gx))

-----------------------------------------------------------------------------
(* prediction_stage as a function of X, P and dt: the loop entered at the  *)
(* prediction, the state and the covariance drawn from bounded sets.       *)

PredStates ==
    {[X_init EXCEPT ![0] = x, ![5] = yaw, ![6] = vx, ![11] = wz] :
        x \in {Zero, One}, yaw \in {Zero, One}, vx \in {Zero, One}, wz \in {Zero, Rat(1, 2)}}

\* Covariances: the initial one, a multiple, and one that couples the pose
\* with the velocities as a prediction with dt > 0 does
PredCovs ==
    {P_init, MScale(P_init, Rat(3, 1)),
     [P_init EXCEPT ![0][6] = Rat(1, 20), ![6][0] = Rat(1, 20),
                    ![5][11] = Rat(1, 20), ![11][5] = Rat(1, 20)]}

InitPred ==
    /\ cfg = DefaultCfg
    /\ X \in PredStates
    /\ P \in PredCovs
    /\ imu = ImuSlot0
    /\ wheel = WheelSlot0
    /\ lidar = LidarSlot0
    /\ pc = "predict"
    /\ t_last = Zero
    /\ dt_now = Zero
    /\ hpc = NoHandler
    /\ pub = <<>>
    /\ ticks = 0
    /\ msgs = 0
    /\ stages = <<>>
    /\ sent = [imu |-> <<>>, wheel |-> <<>>, lidar |-> <<>>]
    /\ used = [imu |-> <<>>, wheel |-> <<>>, lidar |-> <<>>]

SpecPred == InitPred /\ [][Predict]_vars

\* F P F' + Q_pred for the F of dt = 0: the identity, but sin(delta)/delta on
\* the diagonal of the three angle rows
SincAt(i) == IF i \in 3 .. 5 THEN SincStep ELSE One
CovAtRest(P0) ==
    [i \in Idx(N_STATES) |-> [j \in Idx(N_STATES) |->
        Add(Mul(Mul(SincAt(i), P0[i][j]), SincAt(j)), E_pred[i][j])]]

\* C10 as stated: prediction_stage(0) leaves the 12 components of X unchanged
\* and changes P only by adding Q_pred; and a prediction never changes the
\* velocity states X[6:12].
C10_RestAddsOnlyQpred ==
    [][ pc = "predict" /\ pc' = "imu" =>
          /\ Seg(X', 6, 6) = Seg(X, 6, 6)
          /\ dt_now' = Zero => X' = X /\ P' = MAdd(P, E_pred)
      ]_vars

\* C10, amended: prediction_stage(0) leaves the 12 components of X unchanged
\* and sets P to F P F' + Q_pred, where F is the identity but for
\* sin(delta)/delta on the diagonal of the angle rows: P + Q_pred with the
\* angle rows and columns of P scaled; a prediction never changes X[6:12].
C10_PredictionAtRest ==
    [][ pc = "predict" /\ pc' = "imu" =>
          /\ Seg(X', 6, 6) = Seg(X, 6, 6)
          /\ dt_now' = Zero => X' = X /\ P' = CovAtRest(P)
      ]_vars

\* A prediction with dt = 0 from a moving state with coupled covariance
C10_Witness ==
    /\ pc = "imu" /\ dt_now = Zero /\ ticks = 1
    /\ X[6] = One /\ X[5] = One /\ P[0][6] = Rat(1, 20)

-----------------------------------------------------------------------------
(* Fixed points, the shape of P, and what is published.                    *)

\* Every component of the vector v is a tracked finite number
ExactVec(v) == \A i \in DOMAIN v : IsExact(v[i])

\* The estimate is one whose numbers are all tracked
Tracked == ExactVec(X) /\ AllExact(P)

\* C11: a wheel correction whose measurement equals (X[6], X[11]) and an
\* inertial correction whose measured roll, pitch, yaw equal X[3:6] leave
\* every component of X unchanged, for every P and measurement noise the
\* filter reaches (the all-zero noise matrices included).
C11_FixedPoint ==
    [][ /\ pc = "imu" /\ pc' = "imuClear" /\ Tracked
           /\ Seg(imu.Measure, 6, 3) = Seg(X, 3, 3) => X' = X
        /\ pc = "wheel" /\ pc' = "wheelClear" /\ Tracked
           /\ wheel.Measure[0] = X[6] /\ wheel.Measure[1] = X[11] => X' = X
      ]_vars

\* M equals its transpose, entry by entry
Symmetric(M) == \A i \in Idx(Rows(M)) : \A j \in Idx(Rows(M)) : M[i][j] = M[j][i]

\* Every diagonal entry of M is above zero / is zero or above
DiagPositive(M)    == \A i \in Idx(Rows(M)) : Less(Zero, M[i][i])
DiagNonNegative(M) == \A i \in Idx(Rows(M)) : Leq(Zero, M[i][i])

-----------------------------------------------------------------------------
(* What run() publishes, under each value of the publish trigger.          *)

\* All three corrections enabled, under each of the four triggers
TriggerConfigs == {[DefaultCfg EXCEPT !.filterFreq = f] : f \in {"p", "i", "w", "l"}}

\* The slots after wheelOdometryHandler and laserOdometryHandler have run
\* once, on message in, as the id-th message of the node
WheelSlotAfter(in, id) ==
    [StampTimes(WheelSlot0, Zero, Rat(1, 20)) EXCEPT
        !.Measure = EvalV([i \in Idx(N_WHEEL) |->
                        IF i = 0 THEN Mul(One, in.linear_x) ELSE in.angular_z]),
        !.E = [WheelSlot0.E EXCEPT ![0][0] = E_wheel00(DefaultCfg.wheelG, in.cov0),
                                   ![1][1] = E_wheel11(DefaultCfg.wheelG, in.cov35)],
        !.dt = Rat(1, 20), !.header = TruncNs(Zero), !.New = TRUE, !.id = id]
LidarSlotAfter(in, id) ==
    [StampTimes(LidarSlot0, Zero, Rat(1, 10)) EXCEPT
        !.Measure = lidarMeasureOf(in),
        !.E = adaptive_covariance(in.corner, in.surf, DefaultCfg.lidarG),
        !.dt = lidar_dt_of(Zero, Zero), !.header = TruncNs(Zero), !.New = TRUE, !.id = id]

\* What a sensor has sent: nothing, or one of its messages
NoneOr(inputs) == {<<>>} \cup {<<in>> : in \in inputs}

\* The start of the second tick: the first tick has predicted (no callback
\* runs before the first spin_some) and published if the trigger is the
\* prediction; in its spin_some each sensor has delivered one message or none
InitPub ==
    /\ cfg \in TriggerConfigs
    /\ X = prediction_stage(X_init, P_init, Zero)[1]
    /\ P = prediction_stage(X_init, P_init, Zero)[2]
    /\ \E mi \in NoneOr(ImuInputs), mw \in NoneOr(WheelInputs), ml \in NoneOr(LidarInputs) :
          LET idI == Len(mi)
              idW == idI + Len(mw)
              idL == idW + Len(ml)
          IN  /\ imu   = IF mi = <<>> THEN ImuSlot0   ELSE ImuSlotAfter(mi[1])
              /\ wheel = IF mw = <<>> THEN WheelSlot0 ELSE WheelSlotAfter(mw[1], idW)
              /\ lidar = IF ml = <<>> THEN LidarSlot0 ELSE LidarSlotAfter(ml[1], idL)
              /\ msgs = idL
              /\ sent = [imu   |-> IF mi = <<>> THEN <<>> ELSE <<[msg |-> mi[1], id |-> idI]>>,
                         wheel |-> IF mw = <<>> THEN <<>> ELSE <<[msg |-> mw[1], id |-> idW]>>,
                         lidar |-> IF ml = <<>> THEN <<>> ELSE <<[msg |-> ml[1], id |-> idL]>>]
    /\ pc = "predict"
    /\ t_last = Zero
    /\ dt_now = Zero
    /\ hpc = NoHandler
    /\ pub = publish_odom(<<>>, "p", "p", X, P)
    /\ ticks = 1
    /\ stages = <<"p">>
    /\ used = [imu |-> <<>>, wheel |-> <<>>, lidar |-> <<>>]

\* The steps of run()
RunStep ==
    \/ Predict
    \/ CorrectImu
    \/ ClearImu
    \/ CorrectWheel
    \/ ClearWheel
    \/ CorrectLidar
    \/ ClearLidar
    \/ SpinDone

SpecPub == InitPub /\ [][RunStep]_vars

\* The messages of one topic published since the tick began, and the number
\* of times a stage has run in the tick
OnTopic(topic) == SelectSeq(pub, LAMBDA m : m.topic = topic)
RunsOf(tag)    == Len(SelectSeq(stages, LAMBDA g : g = tag))
LastStage      == IF stages = <<>> THEN "none" ELSE stages[Len(stages)]

\* C13: in every tick the filtered estimate has been published once for each
\* run of the stage named by filterFreq and by no other stage, so at most
\* once, and it carries the X and P that stage left; the range-twist
\* diagnostic has been published once for each range correction, whatever
\* the trigger, and carries the Y and Q of that correction.
C13_PublishOnTrigger ==
    /\ Len(OnTopic("filtered")) = RunsOf(cfg.filterFreq)
    /\ Len(OnTopic("filtered")) <= 1
    /\ \A k \in 1..Len(OnTopic("filtered")) : OnTopic("filtered")[k].model = cfg.filterFreq
    /\ LastStage = cfg.filterFreq => OnTopic("filtered")[1].msg = FilteredOdometry(X, P)
    /\ Len(OnTopic("indirect")) = RunsOf("l")
    /\ LastStage = "l" =>
          OnTopic("indirect")[1].msg = IndirectOdometry(used.lidar[1].Y, used.lidar[1].Q)

\* With the inertial correction as trigger, a tick has run all four stages:
\* one filtered estimate, published by the inertial correction before the
\* wheel and the range correction moved X and P, and one diagnostic
C13_Witness ==
    /\ cfg.filterFreq = "i"
    /\ stages = <<"p", "i", "w", "l">>
    /\ Len(pub) = 2
    /\ pub[1].topic = "filtered" /\ pub[1].model = "i"
    /\ pub[2].topic = "indirect"
    /\ pub[1].msg # FilteredOdometry(X, P)

-----------------------------------------------------------------------------
(* The pose and covariance retained between range corrections.             *)

\* The step is a range correction
RangeCorrectionStep == pc = "lidar" /\ pc' = "lidarClear"

\* The pose the previous range correction consumed, the initial zero pose
\* before the first one
ConsumedBefore == IF used.lidar = <<>> THEN LidarSlot0.MeasureL ELSE used.lidar[1].Measure

\* C14: a range correction leaves the retained pose and covariance equal to
\* the staged pose and covariance, which it does not change; no other step
\* (prediction, inertial or wheel correction, any handler) changes the
\* retained pair; so the twist of a range correction is the difference of the
\* staged pose from the pose the previous range correction consumed.
C14_RetainedWrittenByRangeCorrection ==
    [][ /\ RangeCorrectionStep =>
              /\ lidar'.MeasureL = lidar.Measure /\ lidar'.E_L = lidar.E
              /\ lidar'.Measure = lidar.Measure /\ lidar'.E = lidar.E
              /\ lidar.MeasureL = ConsumedBefore
              /\ used'.lidar[1].Y =
                    indirect_lidar_measurement(lidar.Measure, ConsumedBefore, lidar.dt)
        /\ ~RangeCorrectionStep =>
              lidar'.MeasureL = lidar.MeasureL /\ lidar'.E_L = lidar.E_L
      ]_vars

\* A second range correction has run, on a pose that differs from the
\* non-zero pose the first one consumed and retained
C14_Witness ==
    /\ used.lidar # <<>>
    /\ used.lidar[1].stampL # <<>>
    /\ used.lidar[1].MeasureL # used.lidar[1].Measure
    /\ used.lidar[1].MeasureL # ZeroVec(N_LIDAR)
    /\ lidar.MeasureL = used.lidar[1].Measure
    /\ lidar.E_L = used.lidar[1].E /\ lidar.E_L # ZeroMat(N_LIDAR, N_LIDAR)

\* The poses the range sensor's messages carry
ReceivedPoses == {lidarMeasureOf(in) : in \in LidarInputs}

=============================================================================
